---- MODULE Spec2Model ----
(***************************************************************************)
(* The asynchronous conversion job pipeline of the AI Document Converter.  *)
(* The repository holds four revisions of the submission path, and the     *)
(* model keeps them apart by the variable impl:                            *)
(*   "app_main"  backend/app/main.py with the Celery tasks of app/tasks    *)
(*   "root_main" backend/main.py with the Celery tasks of worker.py        *)
(*   "endpoints" app/api/v1/endpoints/conversion_tasks.py (tasks_db)       *)
(*   "flask"     backend/app.py (synchronous, no job store)                *)
(***************************************************************************)
EXTENDS Integers, Sequences, FiniteSets, TLC

\* ------------------------------------------------------------------ bounds
MaxSubmits == 1
MaxPolls == 3
NumPollers == 1

Pollers == 1..NumPollers
\* every submission draws at most two uuid4 values (request id, Celery id)
MaxUuid == 2 * MaxSubmits
Uuids == 1..MaxUuid
\* the ids a client may ask about: 0 is an id uuid4 never returned
QueryIds == 0..MaxUuid

Impls == {"app_main", "root_main", "endpoints", "flask"}
CeleryImpls == {"app_main", "root_main"}

\* ------------------------------------------------------------- file names
Path(dir, stem, ext) == [dir |-> dir, stem |-> stem, ext |-> ext]
NoPath == Path(0, "", "")

\* the uploads offered to the handlers, by the file name the client sent:
\* a.pptx, a.pdf and ../a.doc
FileNames ==
    { [stem |-> "a", ext |-> ".pptx"], [stem |-> "a", ext |-> ".pdf"],
      [stem |-> "../a", ext |-> ".doc"] }
\* no file part / an empty file name
NoFile == [stem |-> "", ext |-> ""]

\* Path(filename).stem: the last component of the name without its suffix
Stem(file) == IF file.stem = "../a" THEN "a" ELSE file.stem

\* directory / filename with the client's name taken as it is: a name that
\* starts with ../ lands in the parent, the directory all jobs share (0)
Joined(dir, file) ==
    IF file.stem = "../a" THEN Path(0, "a", file.ext)
    ELSE Path(dir, file.stem, file.ext)

\* werkzeug secure_filename(stem) or "file"
SecureFilename(stem) == IF stem = "" THEN "file" ELSE stem

\* str.lower() on the strings the model uses
Lower(s) ==
    CASE s \in {"OpenAI", "OPENAI"} -> "openai"
      [] s \in {"Gemini", "GEMINI"} -> "gemini"
      [] s = ".PDF" -> ".pdf"
      [] s = ".PPTX" -> ".pptx"
      [] OTHER -> s

\* str.upper() on the provider names, as used to build the settings keys
Upper(s) ==
    CASE s \in {"gemini", "Gemini"} -> "GEMINI"
      [] s \in {"openai", "OpenAI"} -> "OPENAI"
      [] s = "zhipuai" -> "ZHIPUAI"
      [] OTHER -> s

\* task types are the underscore-separated words of the form field
PPT_TO_PDF == <<"ppt", "to", "pdf">>
DOC_TO_MARKDOWN == <<"doc", "to", "markdown">>
PDF_TO_MARKDOWN == <<"pdf", "to", "markdown">>
DOC_TO_MARKDOWN_AI == <<"doc", "to", "markdown", "ai">>
PDF_TO_MARKDOWN_AI == <<"pdf", "to", "markdown", "ai">>
DOC_TO_MARKDOWN_SIMPLE == <<"doc", "to", "markdown", "simple">>
NoTaskType == <<>>

\* the task types offered to each revision (the names its clients use)
TaskTypesOf(i) ==
    IF i = "flask"
    THEN {PPT_TO_PDF, PDF_TO_MARKDOWN_AI, DOC_TO_MARKDOWN_SIMPLE,
          <<"old", "doc", "to", "markdown">>, NoTaskType}
    ELSE {PPT_TO_PDF, PDF_TO_MARKDOWN, DOC_TO_MARKDOWN_AI, NoTaskType}

\* doc_to_markdown, docx_to_markdown, pdf_to_markdown
AI_TASK_TYPES ==
    {DOC_TO_MARKDOWN, <<"docx", "to", "markdown">>, PDF_TO_MARKDOWN}

\* --------------------------------------------------------------- settings
\* AI_PROVIDER with the API key and model name found under its upper-cased
\* name; "" is an unset value (None)
ProviderNames == {"gemini", "openai"}
SettingsOf(i) ==
    { [AI_PROVIDER |-> "gemini", API_KEY |-> k, MODEL_NAME |-> m] :
        k \in {"", "sk"},
        m \in (IF i = "root_main" THEN {"", "m1"} ELSE {"m1"}) }
    \cup (IF i = "endpoints"
          THEN { [AI_PROVIDER |-> "openai", API_KEY |-> "sk",
                  MODEL_NAME |-> "m1"] }
          ELSE {})

\* ------------------------------------------------- values held by a job
\* warnings as a JSON value: absent key, null, or a list
Warn(present, null, items) ==
    [present |-> present, null |-> null, items |-> items]
NoWarnings == Warn(FALSE, FALSE, <<>>)
ListWarnings(items) == Warn(TRUE, FALSE, items)
NullWarnings == Warn(TRUE, TRUE, <<>>)

\* the dict a task function returns
RetVal(status, message, has_output, output_path, warnings) ==
    [status |-> status, message |-> message, has_output |-> has_output,
     output_path |-> output_path, warnings |-> warnings]
NoRetVal == RetVal("", "", FALSE, NoPath, NoWarnings)

\* a task's record in the Celery result backend; a missing key reads PENDING
Meta(state, result, info) == [state |-> state, result |-> result, info |-> info]
PendingMeta == Meta("PENDING", NoRetVal, "")
READY_STATES == {"SUCCESS", "FAILURE", "REVOKED"}

\* the result part of a status response
Result(kind, url, message, warnings, error_message) ==
    [kind |-> kind, url |-> url, message |-> message, warnings |-> warnings,
     error_message |-> error_message]
NullResult == Result("null", NoPath, "", NoWarnings, "")

\* the response of the AI backend: the API call raises, or it returns a text
AiResponse(error, text) == [error |-> error, text |-> text]
\* no response: the backend was not called
NoResponse == AiResponse(FALSE, "")

\* no call of get_ai_provider
NoArgs ==
    [called |-> FALSE, provider_name |-> "", model_name |-> "", api_key |-> ""]

VARIABLES
    impl,         \* the revision that is deployed
    settings,     \* its configuration
    uuids,        \* number of uuid4 values drawn so far
    subs,         \* the submissions handled so far, with their responses
    inputFiles,   \* input files written: Path records
    outputDirs,   \* ids of the output directories created
    outputFiles,  \* output files written: [path, content]
    broker,       \* Celery messages waiting for a worker
    running,      \* Celery messages a worker is executing
    backend,      \* Celery result backend: id -> Meta
    tasks_db,     \* conversion_tasks.tasks_db: id -> record
    syncJobs,     \* endpoints: jobs between line 50 and the end of the handler
    jobs,         \* ids issued to jobs
    started,      \* ids of the jobs whose execution has begun
    execFailed,   \* ids of the jobs whose executor took a failure path
    finalState,   \* the status and result each finished job was recorded with
    poller,       \* each poller's position inside the status handler
    hist,         \* the responses of the status query, in order of delivery
    replies,      \* the AI backend's response to each job that asked for one
    prompts,      \* the text each job handed to the AI backend ("": none)
    factoryArgs,  \* the arguments each job called get_ai_provider with
    comCall,      \* one call of a COM function of file_processor
    pdfCall,      \* one call of the PDF text extraction of file_processor
    factoryCall,  \* one call of get_ai_provider
    aiCall        \* one call of generate_structured_markdown

\* the calls of the service functions that are followed on their own
fnvars == <<comCall, pdfCall, factoryCall, aiCall>>

\* the state of the job pipeline
jobvars == <<impl, settings, uuids, subs, inputFiles, outputDirs, outputFiles,
             broker, running, backend, tasks_db, syncJobs, jobs, started,
             execFailed, finalState, poller, hist, replies,
             prompts, factoryArgs>>

vars == <<jobvars, fnvars>>

\* a record whose status is set while its result is left for a later write
TaskStatusResponseStatusOnly(status, result) ==
    [present |-> TRUE, status |-> status, result |-> NullResult]

\* TaskStatusResponse(id=..., status=..., result=...) as stored in tasks_db
TaskStatusResponse(status, result) ==
    [present |-> TRUE, status |-> status, result |-> result]

\* the terminal status and result of a job; NoFinal while it has none
Final(status, result) == [status |-> status, result |-> result]
NoFinal == Final("", NullResult)

\* a poller outside the handler; id is the job it follows (-1: none yet) and
\* start the number of responses delivered when its query began
IdlePoller == [pc |-> "idle", id |-> -1, status |-> "", cache |-> PendingMeta,
               cached |-> FALSE, start |-> 0]

\* no call of a service function is being followed
NoCom == [pc |-> "none"]
NoPdf == [pc |-> "none"]
NoFactory == [pc |-> "none"]
NoAi == [pc |-> "none"]

\* the pipeline after start-up: nothing submitted, nothing stored
InitJobs ==
    /\ impl \in Impls
    /\ settings \in SettingsOf(impl)
    /\ uuids = 0
    /\ subs = <<>>
    /\ inputFiles = {}
    /\ outputDirs = {}
    /\ outputFiles = {}
    /\ broker = {}
    /\ running = {}
    /\ backend = [i \in QueryIds |-> PendingMeta]
    /\ tasks_db = [i \in QueryIds |->
                      [present |-> FALSE, status |-> "", result |-> NullResult]]
    /\ syncJobs = {}
    /\ jobs = {}
    /\ started = {}
    /\ execFailed = {}
    /\ finalState = [i \in QueryIds |-> NoFinal]
    /\ poller = [p \in Pollers |-> IdlePoller]
    /\ hist = <<>>
    /\ replies = [i \in QueryIds |-> NoResponse]
    /\ prompts = [i \in QueryIds |-> ""]
    /\ factoryArgs = [i \in QueryIds |-> NoArgs]

Init ==
    /\ InitJobs
    /\ comCall = NoCom
    /\ pdfCall = NoPdf
    /\ factoryCall = NoFactory
    /\ aiCall = NoAi

\* ------------------------------------------------------------- submission
\* one handled submission: what was sent, the HTTP status and the message of
\* the response, the id keying its directories and the job id returned
\* (0: none)
Sub(file, task_type, http, detail, req_id, job_id) ==
    [file |-> file, task_type |-> task_type, http |-> http, detail |-> detail,
     req_id |-> req_id, job_id |-> job_id]

\* a Celery message: task id, task name and the positional arguments
Msg(id, name, input_path, output_path, extra) ==
    [id |-> id, name |-> name, input_path |-> input_path,
     output_path |-> output_path, extra |-> extra]

\* app/main.py upload_and_dispatch_task
AppMainUpload(file, task_type) ==
    /\ impl = "app_main"
    /\ Len(subs) < MaxSubmits
    /\ UNCHANGED <<fnvars, replies, prompts, factoryArgs, impl, settings, outputFiles, running, backend, tasks_db,
                   syncJobs, started, execFailed, finalState, poller, hist>>
    /\ IF file = NoFile \/ task_type = NoTaskType
       THEN /\ subs' = Append(subs,
                   Sub(file, task_type, 422, "Missing file or task_type", 0, 0))
            /\ UNCHANGED <<uuids, inputFiles, outputDirs, broker, jobs>>
       ELSE LET request_id == uuids + 1
                input_path == Joined(request_id, file)
                api_key == settings.API_KEY
                model_name == settings.MODEL_NAME
            IN  /\ inputFiles' = inputFiles \cup {input_path}
                /\ outputDirs' = outputDirs \cup {request_id}
                /\ IF task_type = PPT_TO_PDF
                   THEN LET task_id == uuids + 2
                            output_path == Path(request_id, Stem(file), ".pdf")
                        IN  /\ broker' = broker \cup
                                 {Msg(task_id, "tasks.ppt_to_pdf", input_path,
                                      output_path, <<>>)}
                            /\ uuids' = uuids + 2
                            /\ jobs' = jobs \cup {task_id}
                            /\ subs' = Append(subs,
                                 Sub(file, task_type, 202, "", request_id, task_id))
                   ELSE IF task_type \in AI_TASK_TYPES /\ api_key # ""
                   THEN LET task_id == uuids + 2
                            output_path == Path(request_id, Stem(file), ".md")
                        IN  /\ broker' = broker \cup
                                 {Msg(task_id, "tasks.ai_conversion", input_path,
                                      output_path,
                                      <<"General", settings.AI_PROVIDER,
                                        api_key, model_name>>)}
                            /\ uuids' = uuids + 2
                            /\ jobs' = jobs \cup {task_id}
                            /\ subs' = Append(subs,
                                 Sub(file, task_type, 202, "", request_id, task_id))
                   ELSE \* API key not set, or unknown task type
                        /\ uuids' = uuids + 1
                        /\ subs' = Append(subs,
                             Sub(file, task_type, 400,
                                 IF task_type \in AI_TASK_TYPES
                                 THEN "API Key not set"
                                 ELSE "Unknown task type",
                                 request_id, 0))
                        /\ UNCHANGED <<broker, jobs>>

\* main.py upload_and_dispatch
RootMainUpload(file, task_type) ==
    /\ impl = "root_main"
    /\ Len(subs) < MaxSubmits
    /\ UNCHANGED <<fnvars, replies, prompts, factoryArgs, impl, settings, outputFiles, running, backend, tasks_db,
                   syncJobs, started, execFailed, finalState, poller, hist>>
    /\ IF file = NoFile \/ task_type = NoTaskType
       THEN /\ subs' = Append(subs,
                   Sub(file, task_type, 422, "Missing file or task_type", 0, 0))
            /\ UNCHANGED <<uuids, inputFiles, outputDirs, broker, jobs>>
       ELSE LET req_id == uuids + 1
                input_path == Joined(req_id, file)
                provider_name == settings.AI_PROVIDER
                api_key == settings.API_KEY
                model_name == settings.MODEL_NAME
            IN  /\ inputFiles' = inputFiles \cup {input_path}
                /\ outputDirs' = outputDirs \cup {req_id}
                /\ IF task_type = PPT_TO_PDF
                   THEN LET task_id == uuids + 2
                        IN  /\ broker' = broker \cup
                                 {Msg(task_id, "tasks.ppt_to_pdf", input_path,
                                      Path(req_id, Stem(file), ".pdf"), <<>>)}
                            /\ uuids' = uuids + 2
                            /\ jobs' = jobs \cup {task_id}
                            /\ subs' = Append(subs,
                                 Sub(file, task_type, 202, "", req_id, task_id))
                   ELSE IF task_type \in AI_TASK_TYPES
                           /\ ~(api_key = "" \/ model_name = "")
                   THEN LET task_id == uuids + 2
                        IN  /\ broker' = broker \cup
                                 {Msg(task_id, "tasks.ai_conversion", input_path,
                                      Path(req_id, Stem(file), ".md"),
                                      <<"General", provider_name, api_key,
                                        model_name>>)}
                            /\ uuids' = uuids + 2
                            /\ jobs' = jobs \cup {task_id}
                            /\ subs' = Append(subs,
                                 Sub(file, task_type, 202, "", req_id, task_id))
                   ELSE \* provider not configured, or unknown task type
                        /\ uuids' = uuids + 1
                        /\ subs' = Append(subs,
                             Sub(file, task_type, 400,
                                 IF task_type \in AI_TASK_TYPES
                                 THEN "AI Provider not configured"
                                 ELSE "Unknown task type",
                                 req_id, 0))
                        /\ UNCHANGED <<broker, jobs>>

\* ---------------------------------------------------------------- executor
\* what the environment hands an execution: the COM conversion works or
\* raises, text extraction raises or yields a text, the AI call raises or
\* returns a parsed JSON object
\* the texts the AI backend returns
BodyTitle == "{\"markdown_content\": \"# Title\", \"warnings\": []}"
BodyTitleWarned ==
    "{\"markdown_content\": \"# Title\", \"warnings\": [\"w1\", \"w2\"]}"
BodyNoWarnings == "{\"markdown_content\": \"# Title\"}"
BodyEmptyMarkdown == "{\"markdown_content\": \"\", \"warnings\": []}"
BodyNoMarkdown == "{\"warnings\": []}"
\* the call raises, or returns one of these or a text cut short
AiResponses ==
    {AiResponse(TRUE, "")} \cup
    { AiResponse(FALSE, b) :
        b \in {BodyTitle, BodyTitleWarned, BodyNoWarnings, BodyEmptyMarkdown,
               BodyNoMarkdown, "{\"markdown_content\": \"# Title\""} }
\* further texts that are JSON: warnings null, a third field, an array
BodyNullWarnings == "{\"markdown_content\": \"# Title\", \"warnings\": null}"
BodyExtraField ==
    "{\"markdown_content\": \"# Title\", \"warnings\": [], \"title\": \"T\"}"
BodyArray == "[\"# Title\"]"

\* json.loads on the response texts: the value, or ok = FALSE for a
\* JSONDecodeError; object is FALSE for a value that is not a dict, has_md
\* is FALSE when the key markdown_content is missing, keys are the keys of
\* the dict
Dict(ok, has_md, md, warnings) ==
    [ok |-> ok, object |-> ok, has_md |-> has_md, md |-> md,
     warnings |-> warnings,
     keys |-> (IF has_md THEN {"markdown_content"} ELSE {}) \cup
              (IF warnings.present THEN {"warnings"} ELSE {})]
JsonLoads(text) ==
    CASE text = BodyTitle -> Dict(TRUE, TRUE, "# Title", ListWarnings(<<>>))
      [] text = BodyNullWarnings -> Dict(TRUE, TRUE, "# Title", NullWarnings)
      [] text = BodyExtraField ->
             [Dict(TRUE, TRUE, "# Title", ListWarnings(<<>>))
                EXCEPT !.keys = @ \cup {"title"}]
      [] text = BodyArray ->
             [Dict(TRUE, FALSE, "", NoWarnings) EXCEPT !.object = FALSE]
      [] text = BodyTitleWarned ->
             Dict(TRUE, TRUE, "# Title", ListWarnings(<<"w1", "w2">>))
      [] text = BodyNoWarnings -> Dict(TRUE, TRUE, "# Title", NoWarnings)
      [] text = BodyEmptyMarkdown -> Dict(TRUE, TRUE, "", ListWarnings(<<>>))
      [] text = BodyNoMarkdown -> Dict(TRUE, FALSE, "", ListWarnings(<<>>))
      [] OTHER -> Dict(FALSE, FALSE, "", NoWarnings)

\* what generate_structured_markdown hands its caller: it raises, or returns
\* the dict, read here through .get("markdown_content") and .get("warnings")
AiReply(raise, object, md, warnings) ==
    [raise |-> raise, object |-> object, md |-> md, warnings |-> warnings]

\* the services package a revision imports: app/services or services
Services(i) == IF i \in {"app_main", "endpoints"} THEN "app" ELSE "root"

\* the prompt template as str.format reads it: literal text and replacement
\* fields, a field being whatever stands between a { and the next : or }.
\* The JSON sample of both templates is written with single braces, so its
\* first line is read as the name of a field
Lit == [field |-> FALSE, name |-> ""]
Field(name) == [field |-> TRUE, name |-> name]
PromptTemplate(services) ==
    <<Lit, Field("\n          \"markdown_content\""), Lit, Field("subject"),
      Lit, Field("file_type"), Lit, Field("text_content"), Lit>>

\* the keyword arguments generate_structured_markdown gives to format
PromptArgs == {"subject", "file_type", "text_content"}

\* template.format(**kwargs): "" when the prompt was built, else the
\* exception raised for the first field that is not a keyword
Format(template, kwargs) ==
    IF \E i \in 1..Len(template) :
           template[i].field /\ template[i].name \notin kwargs
    THEN "KeyError"
    ELSE ""

\* one call of generate_structured_markdown: the number of requests sent to
\* the service, the exception that leaves the method ("": none) and the
\* dict returned
Generated(requests, error, result) ==
    [requests |-> requests, error |-> error, result |-> result]
NoDict == Dict(FALSE, FALSE, "", NoWarnings)

\* the try block of generate_structured_markdown: one request, and the
\* response text parsed. app/services OpenAIProvider reads
\* response.choices.message, an attribute a list does not have, and so
\* raises on every response
SendAndParse(services, provider_name, response) ==
    IF response.error THEN Generated(1, "AIServiceError", NoDict)
    ELSE IF services = "app" /\ Lower(provider_name) = "openai"
    THEN Generated(1, "AIServiceError", NoDict)
    ELSE IF ~JsonLoads(response.text).ok
    THEN Generated(1, "AIServiceError", NoDict)
    ELSE Generated(1, "", JsonLoads(response.text))

\* generate_structured_markdown: the prompt, then the try block
GenerateCall(services, provider_name, response) ==
    IF Format(PromptTemplate(services), PromptArgs) # ""
    THEN Generated(0, Format(PromptTemplate(services), PromptArgs), NoDict)
    ELSE SendAndParse(services, provider_name, response)

\* what the caller of the method sees of a call
Seen(call) ==
    AiReply(call.error # "", call.result.object, call.result.md,
            call.result.warnings)

\* what the caller of generate_structured_markdown sees
GenerateStructuredMarkdown(services, provider_name, response) ==
    Seen(GenerateCall(services, provider_name, response))

\* what passed between an execution and the AI backend: the text handed to
\* generate_structured_markdown and the response the service gave to its
\* request (NoResponse when no request was sent)
Exchange(prompt, response) == [prompt |-> prompt, response |-> response]
NoExchange == Exchange("", NoResponse)
Exchanged(services, provider_name, text, response) ==
    Exchange(text,
             IF GenerateCall(services, provider_name, response).requests > 0
             THEN response ELSE NoResponse)

Envs ==
    [com : {"ok", "fail"},
     extract : { [raise |-> TRUE, text |-> ""] } \cup
               { [raise |-> FALSE, text |-> t] : t \in {"", "  ", "text"} },
     ai : AiResponses]
PptEnvs == { e \in Envs : e.extract.raise /\ e.ai.error }
AiEnvs == { e \in Envs : e.com = "ok" }

\* str.strip() on the texts the model uses
Strip(t) == IF t = "  " THEN "" ELSE t

\* convert_to_pdf_com: "" when the PDF was saved, else the error raised
ConvertToPdfCom(input_path, com) ==
    IF Lower(input_path.ext) \notin {".ppt", ".pptx", ".doc", ".docx"}
    THEN "Unsupported file type for PDF conversion"
    ELSE IF com = "fail" THEN "Failed to convert via COM interface"
    ELSE ""

\* a dispatch on the name as it was given
ProviderClassCaseSensitive(provider_name) ==
    IF provider_name = "gemini" THEN "GeminiProvider"
    ELSE IF provider_name = "openai" THEN "OpenAIProvider"
    ELSE ""

\* get_ai_provider: the class chosen for provider_name.lower(); "" for none
ProviderClass(provider_name) ==
    IF Lower(provider_name) = "gemini" THEN "GeminiProvider"
    ELSE IF Lower(provider_name) = "openai" THEN "OpenAIProvider"
    ELSE ""

\* get_ai_provider and the LLMProvider constructor: "" when a provider was
\* built, else the error raised
GetAiProvider(provider_name, model_name, api_key) ==
    IF ProviderClass(provider_name) = ""
    THEN "Unsupported AI provider"
    ELSE IF api_key = "" THEN "API key must be provided."
    ELSE ""

\* an execution whose failure leaves no record behind
OutcomeEscaped(meta, files, failed, asked) ==
    [meta |-> IF failed THEN PendingMeta ELSE meta, files |-> files,
     failed |-> failed, asked |-> asked]

\* the outcome of one execution: the record stored in the result backend,
\* the output files written, whether a failure path was taken, and what
\* passed between the execution and the AI backend
Outcome(meta, files, failed, asked) ==
    [meta |-> meta, files |-> files, failed |-> failed, asked |-> asked]
OutFile(path, content) == [path |-> path, content |-> content]

\* app/tasks/non_ai_conversions.py ppt_to_pdf_task
AppPptToPdfTask(msg, env) ==
    LET err == ConvertToPdfCom(msg.input_path, env.com)
    IN  IF err = ""
        THEN Outcome(Meta("SUCCESS",
                          RetVal("success", "File converted successfully.",
                                 TRUE, msg.output_path, NoWarnings), ""),
                     {OutFile(msg.output_path, "pdf")}, FALSE, NoExchange)
        ELSE \* the exception is caught and a dict is returned
             Outcome(Meta("SUCCESS",
                          RetVal("failed", err, FALSE, NoPath, NoWarnings), ""),
                     {}, TRUE, NoExchange)

\* the text the extraction returns for what the document holds:
\* services/file_processor.py extract_text_smart strips the text of a .pdf
\* and returns the text of a .doc or .docx as it is; the functions of
\* app/services are read by their callers through .strip()
TextContent(services, input_path, extract) ==
    IF services = "root" /\ Lower(input_path.ext) = ".pdf"
    THEN Strip(extract.text)
    ELSE extract.text

\* the error, if any, of the steps of the AI conversion before the call of
\* get_ai_provider; app/tasks strips the text before the emptiness test,
\* worker.py does not
AiBeforeFactory(input_path, model_name, env, services) ==
    IF Lower(input_path.ext) \notin {".doc", ".docx", ".pdf"}
    THEN "Unsupported file type"
    ELSE IF env.extract.raise THEN "Could not extract text"
    ELSE IF (IF services = "app"
             THEN Strip(TextContent(services, input_path, env.extract))
             ELSE TextContent(services, input_path, env.extract)) = ""
    THEN "Extracted text is empty."
    ELSE IF model_name = "" THEN "No default model name configured"
    ELSE ""

\* the error, if any, of the steps of the AI conversion before the AI call
AiPreError(input_path, provider_name, model_name, api_key, env, services) ==
    IF AiBeforeFactory(input_path, model_name, env, services) # ""
    THEN AiBeforeFactory(input_path, model_name, env, services)
    ELSE GetAiProvider(provider_name, model_name, api_key)

\* the keyword arguments of a call of get_ai_provider
Args(provider_name, model_name, api_key) ==
    [called |-> TRUE, provider_name |-> provider_name,
     model_name |-> model_name, api_key |-> api_key]

\* the error, if any, of the steps of the AI conversion up to the AI call
AiConversionError(input_path, provider_name, model_name, api_key, env, services) ==
    IF AiPreError(input_path, provider_name, model_name, api_key, env,
                  services) # ""
    THEN AiPreError(input_path, provider_name, model_name, api_key, env,
                    services)
    ELSE IF GenerateStructuredMarkdown(services, provider_name, env.ai).raise
    THEN "AI service error"
    ELSE ""

\* structured_result.get(...) on a value that is not a dict
NoGet == "'list' object has no attribute 'get'"

\* app/tasks/ai_conversions.py lines 89-114: the dict is read, the markdown
\* saved and the result returned; an exception is caught and a dict returned
AppAiSave(output_path, reply, asked) ==
    LET err == IF ~reply.object THEN NoGet
               ELSE IF reply.md = ""
                    THEN "AI returned an empty markdown content."
                    ELSE ""
        warnings == IF reply.warnings.present THEN reply.warnings
                    ELSE ListWarnings(<<>>)
    IN  IF err = ""
        THEN Outcome(Meta("SUCCESS",
                          RetVal("success",
                                 "File converted successfully using AI.",
                                 TRUE, output_path, warnings), ""),
                     {OutFile(output_path, reply.md)}, FALSE, asked)
        ELSE Outcome(Meta("SUCCESS",
                          RetVal("failed", err, FALSE, NoPath, NoWarnings), ""),
                     {}, TRUE, asked)

\* app/tasks/ai_conversions.py ai_conversion_task lines 17-24 and 70-80:
\* the positional arguments after the two paths bind to (subject, api_key,
\* provider_name, model_name); a model name not given is looked up in the
\* settings under the provider's name
AppBound(extra) ==
    LET provider_name == extra[3]
    IN  Args(provider_name,
             IF extra[4] # "" THEN extra[4]
             ELSE IF Upper(provider_name) \in {"GEMINI", "OPENAI"}
                  THEN settings.MODEL_NAME ELSE "",
             extra[2])

\* worker.py ai_conversion_task: the positional arguments after the two
\* paths bind to (subject, provider_name, api_key, model_name)
RootBound(extra) == Args(extra[2], extra[4], extra[3])

\* the get_ai_provider call of the AI task for a message: its arguments,
\* or NoArgs when the task ends before the call
FactoryArgsOf(i, msg, env) ==
    LET b == IF i = "app_main" THEN AppBound(msg.extra)
             ELSE RootBound(msg.extra)
    IN  IF msg.name = "tasks.ai_conversion"
           /\ AiBeforeFactory(msg.input_path, b.model_name, env,
                              Services(i)) = ""
        THEN b ELSE NoArgs

\* app/tasks/ai_conversions.py ai_conversion_task
AppAiConversionTask(msg, env) ==
    LET api_key == AppBound(msg.extra).api_key
        provider_name == AppBound(msg.extra).provider_name
        model_name == AppBound(msg.extra).model_name
        pre == AiPreError(msg.input_path, provider_name, model_name, api_key,
                          env, "app")
        asked == IF pre = ""
                 THEN Exchanged("app", provider_name,
                                TextContent("app", msg.input_path, env.extract),
                                env.ai)
                 ELSE NoExchange
        reply == GenerateStructuredMarkdown("app", provider_name, env.ai)
        err == AiConversionError(msg.input_path, provider_name, model_name,
                                 api_key, env, "app")
    IN  IF err = ""
        THEN AppAiSave(msg.output_path, reply, asked)
        ELSE Outcome(Meta("SUCCESS",
                          RetVal("failed", err, FALSE, NoPath, NoWarnings), ""),
                     {}, TRUE, asked)

\* worker.py ppt_to_pdf_task
RootPptToPdfTask(msg, env) ==
    LET err == ConvertToPdfCom(msg.input_path, env.com)
    IN  IF err = ""
        THEN Outcome(Meta("SUCCESS",
                          RetVal("success", "File converted to PDF successfully.",
                                 TRUE, msg.output_path, NoWarnings), ""),
                     {OutFile(msg.output_path, "pdf")}, FALSE, NoExchange)
        ELSE \* raise e
             Outcome(Meta("FAILURE", NoRetVal, err), {}, TRUE, NoExchange)

\* worker.py lines 37-44: the dict is read, the markdown saved and the
\* result returned; an exception is raised again
RootAiSave(output_path, reply, asked) ==
    LET err == IF ~reply.object THEN NoGet
               ELSE IF reply.md = ""
                    THEN "AI did not return any markdown content."
                    ELSE ""
        warnings == IF reply.warnings.present THEN reply.warnings
                    ELSE ListWarnings(<<>>)
    IN  IF err = ""
        THEN Outcome(Meta("SUCCESS",
                          RetVal("success", "AI conversion successful.",
                                 TRUE, output_path, warnings), ""),
                     {OutFile(output_path, reply.md)}, FALSE, asked)
        ELSE Outcome(Meta("FAILURE", NoRetVal, err), {}, TRUE, asked)

\* worker.py ai_conversion_task
RootAiConversionTask(msg, env) ==
    LET provider_name == RootBound(msg.extra).provider_name
        api_key == RootBound(msg.extra).api_key
        model_name == RootBound(msg.extra).model_name
        pre == AiPreError(msg.input_path, provider_name, model_name, api_key,
                          env, "root")
        asked == IF pre = ""
                 THEN Exchanged("root", provider_name,
                                TextContent("root", msg.input_path, env.extract),
                                env.ai)
                 ELSE NoExchange
        reply == GenerateStructuredMarkdown("root", provider_name, env.ai)
        err == AiConversionError(msg.input_path, provider_name, model_name,
                                 api_key, env, "root")
    IN  IF err = ""
        THEN RootAiSave(msg.output_path, reply, asked)
        ELSE Outcome(Meta("FAILURE", NoRetVal, err), {}, TRUE, asked)

\* the task function a worker runs for a message
RunTask(msg, env) ==
    IF impl = "app_main"
    THEN IF msg.name = "tasks.ppt_to_pdf" THEN AppPptToPdfTask(msg, env)
         ELSE AppAiConversionTask(msg, env)
    ELSE IF msg.name = "tasks.ppt_to_pdf" THEN RootPptToPdfTask(msg, env)
         ELSE RootAiConversionTask(msg, env)

\* app/main.py get_task_status lines 111-119: the result of a SUCCESS record
AppSuccessResult(task_id, task_output) ==
    Result("success",
           Path(task_id, task_output.output_path.stem,
                task_output.output_path.ext),
           task_output.message,
           IF task_output.warnings.present THEN task_output.warnings
           ELSE ListWarnings(<<>>),
           "")

\* main.py get_status lines 83-87 read through schemas.TaskStatusResult: the
\* task's dict plus output_file_url; a key the dict lacks serialises as null
RootSuccessResult(task_id, task_output) ==
    Result("success",
           IF task_output.has_output
           THEN Path(task_output.output_path.dir, task_output.output_path.stem,
                     task_output.output_path.ext)
           ELSE NoPath,
           task_output.message,
           IF task_output.warnings.present THEN task_output.warnings
           ELSE NullWarnings,
           "")

\* {"error_message": str(task.info)}
ErrorResult(info) == Result("error", NoPath, "", NoWarnings, info)

\* the status and result the status query gives for a stored record
FinalOf(i, id, meta) ==
    IF meta.state = "SUCCESS"
    THEN Final("success",
               IF i = "app_main" THEN AppSuccessResult(id, meta.result)
               ELSE RootSuccessResult(id, meta.result))
    ELSE Final("failed", ErrorResult(meta.info))

\* a worker takes a message off the broker and enters the task function
WorkerStart(msg) ==
    /\ msg \in broker
    /\ broker' = broker \ {msg}
    /\ running' = running \cup {msg}
    /\ started' = started \cup {msg.id}
    /\ UNCHANGED <<fnvars, replies, prompts, factoryArgs, impl, settings, uuids, subs, inputFiles, outputDirs,
                   outputFiles, backend, tasks_db, syncJobs, jobs, execFailed,
                   finalState, poller, hist>>

\* the task function ends and Celery stores its state and result together
WorkerFinish(msg, env) ==
    /\ msg \in running
    /\ env \in (IF msg.name = "tasks.ppt_to_pdf" THEN PptEnvs ELSE AiEnvs)
    /\ LET out == RunTask(msg, env)
       IN  /\ running' = running \ {msg}
           /\ outputFiles' = outputFiles \cup out.files
           /\ backend' = [backend EXCEPT ![msg.id] = out.meta]
           /\ finalState' = [finalState EXCEPT ![msg.id] =
                  FinalOf(impl, msg.id, out.meta)]
           /\ execFailed' = IF out.failed THEN execFailed \cup {msg.id}
                            ELSE execFailed
           /\ replies' = [replies EXCEPT ![msg.id] = out.asked.response]
           /\ prompts' = [prompts EXCEPT ![msg.id] = out.asked.prompt]
           /\ factoryArgs' = [factoryArgs EXCEPT ![msg.id] =
                  FactoryArgsOf(impl, msg, env)]
    /\ UNCHANGED <<fnvars, impl, settings, uuids, subs, inputFiles, outputDirs,
                   broker, tasks_db, syncJobs, jobs, started, poller, hist>>

\* core/celery_app.py result_expires: a stored result is deleted from the
\* backend when it expires (Celery's default expiry for worker.py)
ResultExpires(id) ==
    /\ impl \in CeleryImpls
    /\ backend[id].state \in READY_STATES
    /\ backend' = [backend EXCEPT ![id] = PendingMeta]
    /\ UNCHANGED <<fnvars, replies, prompts, factoryArgs, impl, settings, uuids, subs, inputFiles, outputDirs,
                   outputFiles, broker, running, tasks_db, syncJobs, jobs,
                   started, execFailed, finalState, poller, hist>>

\* ------------------------------------------------------------ status query
\* one response of the status query, as the client receives it
Resp(id, http, status, result) ==
    [id |-> id, http |-> http, status |-> status, result |-> result]

\* a delivered response with the poller it went to and the number of
\* responses that had been delivered when its query began
Delivered(p, start, resp) == [p |-> p, start |-> start, resp |-> resp]

\* the queries that have begun and not yet been answered
InFlight == { p \in Pollers : poller[p].pc # "idle" }

\* schemas TaskStatus = Literal["pending", "in_progress", "success", "failed"]
TaskStatus == {"pending", "in_progress", "success", "failed"}

\* response_model=TaskStatusResponse: a status outside the Literal fails the
\* validation of the response and the client gets a 500
Validated(id, status, result) ==
    IF status \in TaskStatus THEN Resp(id, 200, status, result)
    ELSE Resp(id, 500, status, result)

\* AsyncResult._maybe_set_cache: a ready state is kept by the AsyncResult
MaybeSetCache(pl, meta) ==
    IF meta.state \in READY_STATES
    THEN [pl EXCEPT !.cache = meta, !.cached = TRUE]
    ELSE pl

\* AsyncResult._get_task_meta: the cached record, else a read of the backend
GetTaskMeta(pl) == IF pl.cached THEN pl.cache ELSE backend[pl.id]

\* str.lower() of a Celery state
LowerState(state) ==
    CASE state = "PENDING" -> "pending"
      [] state = "SUCCESS" -> "success"
      [] state = "FAILURE" -> "failure"
      [] state = "REVOKED" -> "revoked"
      [] OTHER -> state

Respond(p, resp) ==
    /\ hist' = Append(hist, Delivered(p, poller[p].start, resp))
    /\ poller' = [poller EXCEPT ![p] =
           [IdlePoller EXCEPT !.id = resp.id, !.status = poller[p].status]]

PollUnchanged ==
    UNCHANGED <<fnvars, replies, prompts, factoryArgs, impl, settings, uuids, subs, inputFiles, outputDirs,
                outputFiles, broker, running, backend, tasks_db, syncJobs,
                jobs, started, execFailed, finalState>>

\* get_task_status / get_status: AsyncResult(id) and the read of .status
PollStatus(p, id) ==
    /\ impl \in CeleryImpls
    /\ poller[p].pc = "idle"
    /\ Len(hist) + Cardinality(InFlight) < MaxPolls
    /\ id <= uuids
    /\ poller[p].id \in {-1, id}
    /\ LET meta == backend[id]
           status == IF impl = "app_main" THEN LowerState(meta.state)
                     ELSE meta.state
       IN  poller' = [poller EXCEPT ![p] =
                MaybeSetCache([IdlePoller EXCEPT !.pc = "successful",
                               !.id = id, !.status = status,
                               !.start = Len(hist)], meta)]
    /\ UNCHANGED hist
    /\ PollUnchanged

\* task_result.successful()
PollSuccessful(p) ==
    /\ poller[p].pc = "successful"
    /\ LET meta == GetTaskMeta(poller[p])
       IN  poller' = [poller EXCEPT ![p] =
                MaybeSetCache([@ EXCEPT !.pc = IF meta.state = "SUCCESS"
                                               THEN "result" ELSE "failed"],
                              meta)]
    /\ UNCHANGED hist
    /\ PollUnchanged

\* the success branch: task_result.get() / task.result, and the response
PollResult(p) ==
    /\ poller[p].pc = "result"
    /\ LET meta == GetTaskMeta(poller[p])
           id == poller[p].id
       IN  Respond(p, Validated(id, "success",
                IF meta.state # "SUCCESS" THEN NullResult
                ELSE IF impl = "app_main"
                     THEN AppSuccessResult(id, meta.result)
                     ELSE RootSuccessResult(id, meta.result)))
    /\ PollUnchanged

\* task_result.failed(), and the response of an unfinished task
PollFailed(p) ==
    /\ poller[p].pc = "failed"
    /\ LET meta == GetTaskMeta(poller[p])
           id == poller[p].id
           status == poller[p].status
       IN  IF meta.state = "FAILURE"
           THEN /\ poller' = [poller EXCEPT ![p] =
                       MaybeSetCache([@ EXCEPT !.pc = "info"], meta)]
                /\ UNCHANGED hist
           ELSE Respond(p, Validated(id,
                    IF impl = "app_main"
                       /\ status \in {"pending", "started", "retry"}
                    THEN "in_progress" ELSE status,
                    NullResult))
    /\ PollUnchanged

\* the failure branch: str(task.info), and the response
PollInfo(p) ==
    /\ poller[p].pc = "info"
    /\ LET meta == GetTaskMeta(poller[p])
       IN  Respond(p, Validated(poller[p].id, "failed", ErrorResult(meta.info)))
    /\ PollUnchanged

\* conversion_tasks.py get_task_status
PollTasksDb(p, id) ==
    /\ impl = "endpoints"
    /\ poller[p].pc = "idle"
    /\ Len(hist) + Cardinality(InFlight) < MaxPolls
    /\ id <= uuids
    /\ poller[p].id \in {-1, id}
    /\ LET task == tasks_db[id]
       IN  /\ hist' = Append(hist, Delivered(p, Len(hist),
                  IF ~task.present THEN Resp(id, 404, "", NullResult)
                  ELSE Validated(id, task.status, task.result)))
           /\ poller' = [poller EXCEPT ![p] = [IdlePoller EXCEPT !.id = id]]
    /\ PollUnchanged

\* ------------------------------------------- the synchronous FastAPI router
\* conversion_tasks.py upload_and_convert_file, lines 27-51: the id, the
\* upload saved under it, and the first record in tasks_db
EndpointsUpload(file, task_type) ==
    /\ impl = "endpoints"
    /\ Len(subs) + Cardinality(syncJobs) < MaxSubmits
    /\ UNCHANGED <<fnvars, replies, prompts, factoryArgs, impl, settings, outputDirs, outputFiles, broker, running,
                   backend, execFailed, finalState, poller, hist>>
    /\ IF file = NoFile \/ task_type = NoTaskType
       THEN \* Form(...) / File(...) missing: rejected by the framework
            /\ subs' = Append(subs,
                   Sub(file, task_type, 422, "Field required", 0, 0))
            /\ UNCHANGED <<uuids, inputFiles, tasks_db, syncJobs, jobs, started>>
       ELSE LET task_id == uuids + 1
            IN  /\ uuids' = uuids + 1
                /\ inputFiles' = inputFiles \cup
                       {Joined(task_id, file)}
                /\ tasks_db' = [tasks_db EXCEPT ![task_id] =
                       TaskStatusResponse("in_progress", NullResult)]
                /\ syncJobs' = syncJobs \cup
                       {[id |-> task_id, file |-> file,
                         task_type |-> task_type]}
                /\ jobs' = jobs \cup {task_id}
                /\ started' = started \cup {task_id}
                /\ UNCHANGED subs

\* conversion_tasks.py lines 99-102: markdown_content is read with the
\* default "" and written as it is
EndpointsSaveError(reply) == IF ~reply.object THEN NoGet ELSE ""

\* conversion_tasks.py lines 58-104: "" and the file written, or the error
EndpointsConvert(job, env) ==
    LET input_path == Joined(job.id, job.file)
        api_key == settings.API_KEY
        pre == IF Lower(input_path.ext) \notin {".doc", ".docx", ".pdf"}
               THEN "Unsupported file type for this task"
               ELSE IF env.extract.raise THEN "Could not extract text"
               ELSE IF Strip(env.extract.text) = ""
               THEN "Extracted text is empty"
               ELSE IF api_key = "" THEN "API Key is not configured."
               ELSE GetAiProvider(settings.AI_PROVIDER, settings.MODEL_NAME,
                                  api_key)
        reply == GenerateStructuredMarkdown("app", settings.AI_PROVIDER, env.ai)
        err == IF job.task_type = PPT_TO_PDF
               THEN ConvertToPdfCom(input_path, env.com)
               ELSE IF job.task_type \in AI_TASK_TYPES
               THEN IF pre # "" THEN pre
                    ELSE IF reply.raise THEN "AI service error"
                    ELSE EndpointsSaveError(reply)
               ELSE "Unknown task type"
        asked == IF job.task_type \in AI_TASK_TYPES /\ pre = ""
                 THEN Exchanged("app", settings.AI_PROVIDER,
                                TextContent("app", input_path, env.extract),
                                env.ai)
                 ELSE NoExchange
        ext == IF job.task_type = PPT_TO_PDF THEN ".pdf" ELSE ".md"
        output_file_path == Path(job.id, Stem(job.file), ext)
        warnings == IF job.task_type # PPT_TO_PDF /\ reply.warnings.present
                    THEN reply.warnings ELSE ListWarnings(<<>>)
    IN  IF err = ""
        THEN [status |-> "success",
              result |-> Result("success", output_file_path, "", warnings, ""),
              files |-> {OutFile(output_file_path,
                  IF job.task_type = PPT_TO_PDF THEN "pdf" ELSE reply.md)},
              dirs |-> {job.id}, failed |-> FALSE, asked |-> asked]
        ELSE [status |-> "failed", result |-> ErrorResult(err),
              files |-> {},
              dirs |-> IF job.task_type = PPT_TO_PDF
                          \/ job.task_type \in AI_TASK_TYPES
                       THEN {job.id} ELSE {},
              failed |-> TRUE, asked |-> asked]

\* conversion_tasks.py lines 53-122: the conversion, the final record in
\* tasks_db, and the response of the upload
EndpointsExecute(job, env) ==
    /\ job \in syncJobs
    /\ env \in (IF job.task_type = PPT_TO_PDF THEN PptEnvs ELSE AiEnvs)
    /\ LET out == EndpointsConvert(job, env)
       IN  /\ tasks_db' = [tasks_db EXCEPT ![job.id] =
                  TaskStatusResponse(out.status, out.result)]
           /\ outputFiles' = outputFiles \cup out.files
           /\ outputDirs' = outputDirs \cup out.dirs
           /\ execFailed' = IF out.failed THEN execFailed \cup {job.id}
                            ELSE execFailed
           /\ finalState' = [finalState EXCEPT ![job.id] =
                  Final(out.status, out.result)]
           /\ replies' = [replies EXCEPT ![job.id] = out.asked.response]
           /\ prompts' = [prompts EXCEPT ![job.id] = out.asked.prompt]
    /\ syncJobs' = syncJobs \ {job}
    /\ subs' = Append(subs, Sub(job.file, job.task_type, 202, "", job.id, job.id))
    /\ UNCHANGED <<fnvars, factoryArgs, impl, settings, uuids, inputFiles, broker, running, backend,
                   jobs, started, poller, hist>>

\* -------------------------------------------------------- the Flask handler
\* `sub in task_type` for a needle that is a run of whole words
Contains(task_type, sub) ==
    \E i \in 0..(Len(task_type) - Len(sub)) :
        SubSeq(task_type, i + 1, i + Len(sub)) = sub

\* app.py TASK_TO_EXTENSIONS.get(task_type); {} when the key is missing
TASK_TO_EXTENSIONS(task_type) ==
    IF task_type = PPT_TO_PDF THEN {".ppt", ".pptx"}
    ELSE IF task_type = DOC_TO_MARKDOWN_AI THEN {".doc", ".docx"}
    ELSE IF task_type = PDF_TO_MARKDOWN_AI THEN {".pdf"}
    ELSE IF task_type = DOC_TO_MARKDOWN_SIMPLE THEN {".doc", ".docx"}
    ELSE {}

\* app.py lines 63-71: the extensions the validation allows for a task type
AllowedExtensions(task_type) ==
    IF TASK_TO_EXTENSIONS(task_type) # {} THEN TASK_TO_EXTENSIONS(task_type)
    ELSE IF Contains(task_type, DOC_TO_MARKDOWN) THEN {".doc", ".docx"}
    ELSE {}

\* app.py lines 92-143: the HTTP status of the conversion branches and the
\* output file written
FlaskConvert(req_id, file, task_type, env) ==
    LET input_path == Path(req_id, SecureFilename(Stem(file)), Lower(file.ext))
        reply == GenerateStructuredMarkdown("root", settings.AI_PROVIDER, env.ai)
        done(ext, content) ==
            [http |-> 200, detail |-> "",
             files |-> {OutFile(Path(req_id, SecureFilename(Stem(file)), ext), content)}]
        fail(code, detail) == [http |-> code, detail |-> detail, files |-> {}]
    IN  IF task_type = PPT_TO_PDF
        THEN IF ConvertToPdfCom(input_path, env.com) = ""
             THEN done(".pdf", "pdf") ELSE fail(500, "An error occurred")
        ELSE IF task_type = DOC_TO_MARKDOWN_SIMPLE
        THEN \* services/file_processor.py has no convert_word_to_markdown_simple
             fail(500, "An error occurred")
        ELSE IF \* '_ai' in task_type: a word "ai" that follows an underscore
                \E i \in 2..Len(task_type) : task_type[i] = "ai"
        THEN IF env.extract.raise THEN fail(500, "An error occurred")
             ELSE IF Strip(env.extract.text) = ""
             THEN fail(400, "Could not extract any text")
             ELSE IF settings.AI_PROVIDER = "" \/ settings.MODEL_NAME = ""
             THEN fail(400, "AI Provider and Model must be selected.")
             ELSE IF settings.API_KEY = ""
             THEN fail(400, "API Key not configured")
             ELSE IF GetAiProvider(settings.AI_PROVIDER, settings.MODEL_NAME,
                                   settings.API_KEY) # ""
             THEN fail(500, "An error occurred")
             ELSE IF reply.raise \/ ~reply.object
             THEN fail(500, "An error occurred")
             ELSE IF reply.md = ""
             THEN fail(400, "AI processing resulted in empty content.")
             ELSE done(".md", reply.md)
        ELSE fail(400, "Invalid task type")

\* app.py upload_and_process
FlaskUpload(file, task_type, env) ==
    /\ impl = "flask"
    /\ Len(subs) < MaxSubmits
    /\ env \in (IF task_type = PPT_TO_PDF THEN PptEnvs ELSE AiEnvs)
    /\ UNCHANGED <<fnvars, replies, prompts, factoryArgs, impl, settings, broker, running, backend, tasks_db, syncJobs,
                   jobs, started, execFailed, finalState, poller, hist>>
    /\ IF file = NoFile \/ task_type = NoTaskType
       THEN /\ subs' = Append(subs,
                   Sub(file, task_type, 400, "No file or task type", 0, 0))
            /\ UNCHANGED <<uuids, inputFiles, outputDirs, outputFiles>>
       ELSE IF Lower(file.ext) \notin AllowedExtensions(task_type)
       THEN /\ subs' = Append(subs,
                   Sub(file, task_type, 400, "File type mismatch", 0, 0))
            /\ UNCHANGED <<uuids, inputFiles, outputDirs, outputFiles>>
       ELSE LET req_id == uuids + 1
                out == FlaskConvert(req_id, file, task_type, env)
            IN  /\ uuids' = uuids + 1
                /\ inputFiles' = inputFiles \cup
                       {Path(req_id, SecureFilename(Stem(file)), Lower(file.ext))}
                /\ outputDirs' = outputDirs \cup {req_id}
                /\ outputFiles' = outputFiles \cup out.files
                /\ subs' = Append(subs,
                       Sub(file, task_type, out.http, out.detail, req_id, 0))

\* ------------------------------------------------------------ specification
Next ==
    \/ \E file \in FileNames \cup {NoFile}, task_type \in TaskTypesOf(impl) :
          \/ AppMainUpload(file, task_type)
          \/ RootMainUpload(file, task_type)
          \/ EndpointsUpload(file, task_type)
          \/ \E env \in Envs : FlaskUpload(file, task_type, env)
    \/ \E msg \in broker : WorkerStart(msg)
    \/ \E msg \in running, env \in Envs : WorkerFinish(msg, env)
    \/ \E job \in syncJobs, env \in Envs : EndpointsExecute(job, env)
    \/ \E id \in QueryIds : ResultExpires(id)
    \/ \E p \in Pollers, id \in QueryIds :
          \/ PollStatus(p, id)
          \/ PollTasksDb(p, id)
    \/ \E p \in Pollers :
          \/ PollSuccessful(p)
          \/ PollResult(p)
          \/ PollFailed(p)
          \/ PollInfo(p)

Spec == Init /\ [][Next]_vars

\* ------------------------------------------- submission and execution, fair
\* the steps that create and run jobs, without the status queries
NextRun ==
    \/ \E file \in FileNames \cup {NoFile}, task_type \in TaskTypesOf(impl) :
          \/ AppMainUpload(file, task_type)
          \/ RootMainUpload(file, task_type)
          \/ EndpointsUpload(file, task_type)
          \/ \E env \in Envs : FlaskUpload(file, task_type, env)
    \/ \E msg \in broker : WorkerStart(msg)
    \/ \E msg \in running, env \in Envs : WorkerFinish(msg, env)
    \/ \E job \in syncJobs, env \in Envs : EndpointsExecute(job, env)
    \/ \E id \in QueryIds : ResultExpires(id)

\* a worker that has a message takes it and runs the task function to its
\* end; the request handler of conversion_tasks.py runs to its end
SpecRun ==
    /\ Init
    /\ [][NextRun]_vars
    /\ WF_vars(\E msg \in broker : WorkerStart(msg))
    /\ WF_vars(\E msg \in running, env \in Envs : WorkerFinish(msg, env))
    /\ WF_vars(\E job \in syncJobs, env \in Envs : EndpointsExecute(job, env))

\* ------------------------------------------------- the COM functions alone
\* convert_to_pdf_com and the .doc text read (extract_text_from_doc in
\* app/services, the .doc branch of extract_text_smart in services), followed
\* statement by statement; faults are the COM calls that raise

\* PpSaveAsFileType.ppSaveAsPDF and WdSaveFormat.wdFormatPDF
ppSaveAsPDF == 32
wdFormatPDF == 17

\* a call at its first statement, on an input path with extension ext and
\* the output path output: app and doc are the local variables (FALSE:
\* None), running and open the application instance and the document behind
\* them, created the engines an instance was asked of, saved what SaveAs
\* wrote, initialized and uninitialized the numbers of CoInitialize and
\* CoUninitialize calls made
ComCall(name, faults, ext, output) ==
    [pc |-> "enter", name |-> name, faults |-> faults, ext |-> ext,
     output |-> output, app_name |-> "", save_format |-> 0, created |-> {},
     saved |-> {}, initialized |-> 0, uninitialized |-> 0, app |-> FALSE,
     doc |-> FALSE, running |-> FALSE, open |-> FALSE, raised |-> FALSE]

\* services/file_processor.py calls comtypes.CoInitialize() before its COM
\* work and CoUninitialize() at the end of its finally block; app/services
\* calls neither
Initializes == Services(impl) = "root"

\* the engine for an extension: "" for an extension that is not converted
AppName(file_ext) ==
    IF file_ext \in {".ppt", ".pptx"} THEN "Powerpoint.Application"
    ELSE IF file_ext \in {".doc", ".docx"} THEN "Word.Application"
    ELSE ""

\* one export format for both engines
SaveFormatOfWord(app_name) == wdFormatPDF

\* the export format code for an engine
SaveFormat(app_name) ==
    IF app_name = "Powerpoint.Application" THEN ppSaveAsPDF ELSE wdFormatPDF

\* CoInitialize, and the choice of the engine by file_ext = suffix.lower():
\* app/services raises for another extension before its try block,
\* services raises inside it and so passes through its finally block
ComEnter ==
    /\ comCall.pc = "enter"
    /\ LET entered == [comCall EXCEPT !.initialized =
                          IF Initializes THEN 1 ELSE 0]
           app_name == IF comCall.name = "convert_to_pdf_com"
                       THEN AppName(Lower(comCall.ext))
                       ELSE "Word.Application"
       IN  comCall' =
             IF app_name = ""
             THEN [entered EXCEPT !.raised = TRUE,
                                  !.pc = IF Services(impl) = "app"
                                         THEN "done" ELSE "close"]
             ELSE [entered EXCEPT !.app_name = app_name, !.pc = "create"]
    /\ UNCHANGED <<jobvars, pdfCall, factoryCall, aiCall>>

\* app/services convert_to_pdf_com wraps doc.Close() and app.Quit() each in
\* try/except; the other three finally blocks call them bare
GuardedCleanup(name) == Services(impl) = "app" /\ name = "convert_to_pdf_com"

\* CreateObject / EnsureDispatch; app/services then sets app.Visible = False,
\* services does not
ComCreate ==
    /\ comCall.pc = "create"
    /\ comCall' = IF "create" \in comCall.faults
                  THEN [comCall EXCEPT !.pc = "close", !.raised = TRUE]
                  ELSE [comCall EXCEPT !.app = TRUE, !.running = TRUE,
                           !.created = {comCall.app_name},
                           !.pc = IF Services(impl) = "app" THEN "visible"
                                  ELSE "open"]
    /\ UNCHANGED <<jobvars, pdfCall, factoryCall, aiCall>>

\* app.Visible = False
ComVisible ==
    /\ comCall.pc = "visible"
    /\ comCall' = IF "visible" \in comCall.faults
                  THEN [comCall EXCEPT !.pc = "close", !.raised = TRUE]
                  ELSE [comCall EXCEPT !.pc = "open"]
    /\ UNCHANGED <<jobvars, pdfCall, factoryCall, aiCall>>

\* Presentations.Open / Documents.Open
ComOpen ==
    /\ comCall.pc = "open"
    /\ comCall' = IF "open" \in comCall.faults
                  THEN [comCall EXCEPT !.pc = "close", !.raised = TRUE]
                  ELSE [comCall EXCEPT !.doc = TRUE, !.open = TRUE,
                                       !.pc = "work"]
    /\ UNCHANGED <<jobvars, pdfCall, factoryCall, aiCall>>

\* doc.SaveAs(output, FileFormat=save_format) / doc.Content.Text; then the
\* finally block
ComWork ==
    /\ comCall.pc = "work"
    /\ comCall' =
         IF "work" \in comCall.faults
         THEN [comCall EXCEPT !.pc = "close", !.raised = TRUE]
         ELSE IF comCall.name = "convert_to_pdf_com"
         THEN [comCall EXCEPT
                 !.pc = "close",
                 !.save_format = SaveFormat(comCall.app_name),
                 !.saved = {[path |-> comCall.output,
                             format |-> SaveFormat(comCall.app_name)]}]
         ELSE [comCall EXCEPT !.pc = "close"]
    /\ UNCHANGED <<jobvars, pdfCall, factoryCall, aiCall>>

\* finally: if doc: doc.Close(); an exception of a bare Close leaves the
\* finally block at once
ComClose ==
    /\ comCall.pc = "close"
    /\ comCall' = IF ~comCall.doc THEN [comCall EXCEPT !.pc = "quit"]
                  ELSE IF "close" \notin comCall.faults
                  THEN [comCall EXCEPT !.open = FALSE, !.pc = "quit"]
                  ELSE IF GuardedCleanup(comCall.name)
                  THEN [comCall EXCEPT !.pc = "quit"]
                  ELSE [comCall EXCEPT !.raised = TRUE, !.pc = "done"]
    /\ UNCHANGED <<jobvars, pdfCall, factoryCall, aiCall>>

\* finally: if app: app.Quit(), which ends the instance and its documents;
\* an exception of a bare Quit leaves the finally block at once
ComQuit ==
    /\ comCall.pc = "quit"
    /\ LET next == IF Initializes THEN "uninit" ELSE "done"
       IN  comCall' =
             IF ~comCall.app THEN [comCall EXCEPT !.pc = next]
             ELSE IF "quit" \notin comCall.faults
             THEN [comCall EXCEPT !.running = FALSE, !.open = FALSE,
                                  !.pc = next]
             ELSE IF GuardedCleanup(comCall.name)
             THEN [comCall EXCEPT !.pc = next]
             ELSE [comCall EXCEPT !.raised = TRUE, !.pc = "done"]
    /\ UNCHANGED <<jobvars, pdfCall, factoryCall, aiCall>>

\* finally: comtypes.CoUninitialize()
ComUninit ==
    /\ comCall.pc = "uninit"
    /\ comCall' = [comCall EXCEPT !.uninitialized = @ + 1, !.pc = "done"]
    /\ UNCHANGED <<jobvars, pdfCall, factoryCall, aiCall>>

\* a configured deployment, for following one service function on its own
Configured ==
    settings = [AI_PROVIDER |-> "gemini", API_KEY |-> "sk", MODEL_NAME |-> "m1"]

InitCom ==
    /\ InitJobs
    /\ Configured
    /\ comCall \in
         { ComCall(name, faults, ext, Path(1, "a", ".pdf")) :
             name \in {"convert_to_pdf_com", "extract_text_from_doc"},
             faults \in SUBSET {"create", "visible", "open", "work", "close",
                                "quit"},
             ext \in {".ppt", ".pptx", ".PPTX", ".doc", ".docx", ".pdf"} }
    /\ comCall.name = "extract_text_from_doc" => comCall.ext = ".doc"
    /\ pdfCall = NoPdf
    /\ factoryCall = NoFactory
    /\ aiCall = NoAi

NextCom ==
    \/ ComEnter
    \/ ComCreate
    \/ ComVisible
    \/ ComOpen
    \/ ComWork
    \/ ComClose
    \/ ComQuit
    \/ ComUninit

SpecCom == InitCom /\ [][NextCom]_vars

\* ------------------------------------------ the PDF text extraction alone
\* a text is a sequence of runs of characters: whitespace or not, the length
\* of the run, and the page the characters came from (0: none)
Piece(kind, n, tag) == [kind |-> kind, n |-> n, tag |-> tag]

\* len(text)
RECURSIVE LenText(_)
LenText(t) == IF t = <<>> THEN 0 ELSE Head(t).n + LenText(Tail(t))

RECURSIVE LStrip(_)
LStrip(t) ==
    IF t # <<>> /\ Head(t).kind = "ws" THEN LStrip(Tail(t)) ELSE t

RECURSIVE RStrip(_)
RStrip(t) ==
    IF t # <<>> /\ t[Len(t)].kind = "ws"
    THEN RStrip(SubSeq(t, 1, Len(t) - 1)) ELSE t

\* text.strip()
StripText(t) == RStrip(LStrip(t))

\* sep.join(texts)
RECURSIVE JoinText(_, _)
JoinText(sep, texts) ==
    IF texts = <<>> THEN <<>>
    ELSE IF Len(texts) = 1 THEN texts[1]
    ELSE texts[1] \o sep \o JoinText(sep, Tail(texts))

\* "\n\n--- Page Break ---\n\n"
PageBreak == <<Piece("ws", 2, 0), Piece("text", 18, 0), Piece("ws", 2, 0)>>

\* extract_text_from_pdf(input_path, ocr_threshold=100)
ocr_threshold == 100
MaxPages == 3


\* page.get_text("text", sort=True) of page k
PageDirect(k, n) ==
    IF k # 1 THEN <<>>
    ELSE IF n = 0 THEN <<Piece("ws", 1, 0)>>
    ELSE <<Piece("ws", 1, 0), Piece("text", n, 0), Piece("ws", 1, 0)>>

\* pytesseract.image_to_string of page k
PageOcr(k, outcome) ==
    IF outcome = "text" THEN <<Piece("text", 10, k), Piece("ws", 1, k)>>
    ELSE <<>>

\* a call of extract_text_from_pdf (app/services) or of the .pdf branch of
\* extract_text_smart (services) at its first statement
PdfCall(pages, direct, ocr, opens, tier1raise, ocr_available) ==
    [pc |-> "open", pages |-> pages, direct |-> direct, ocr |-> ocr,
     opens |-> opens, tier1raise |-> tier1raise,
     ocr_available |-> ocr_available, tier1_text |-> <<>>, page |-> 1,
     full_text |-> <<>>, ocr_called |-> FALSE, ocr_done |-> FALSE,
     ocr_text |-> <<>>, ret |-> <<>>, raised |-> FALSE, closed |-> 0]

\* the function left with the document still open
LeftOpen(c) == c

\* doc.close() as the function is left: in app/services the call before the
\* direct return and the finally block around the OCR tier, in services the
\* exit of the with block, taken by a return and by an exception alike;
\* closed counts the calls
DocClose(c) == [c EXCEPT !.closed = @ + 1]

\* "\n\n".join(page.get_text("text", sort=True) for page in doc)
Tier1Text(pages, direct) ==
    JoinText(<<Piece("ws", 2, 0)>>, [k \in 1..pages |-> PageDirect(k, direct)])

\* the threshold test taken on the text as extracted, before it is trimmed
DirectEnoughUntrimmed(tier1_text) == LenText(tier1_text) > ocr_threshold

\* len(tier1_text.strip()) > ocr_threshold
DirectEnough(tier1_text) == LenText(StripText(tier1_text)) > ocr_threshold

\* fitz.open(input_path)
PdfOpen ==
    /\ pdfCall.pc = "open"
    /\ pdfCall' = IF pdfCall.opens THEN [pdfCall EXCEPT !.pc = "tier1"]
                  ELSE [pdfCall EXCEPT !.pc = "done", !.raised = TRUE]
    /\ UNCHANGED <<jobvars, comCall, factoryCall, aiCall>>

\* Tier 1 and the threshold test; app/services catches an exception of the
\* direct extraction and goes on with an empty text, services lets it out
PdfTier1 ==
    /\ pdfCall.pc = "tier1"
    /\ LET tier1_text == IF pdfCall.tier1raise THEN <<>>
                         ELSE Tier1Text(pdfCall.pages, pdfCall.direct)
       IN  pdfCall' =
             IF pdfCall.tier1raise /\ Services(impl) = "root"
             THEN DocClose([pdfCall EXCEPT !.pc = "done", !.raised = TRUE])
             ELSE IF DirectEnough(tier1_text)
             THEN DocClose([pdfCall EXCEPT !.pc = "done",
                                           !.tier1_text = tier1_text,
                                           !.ret = StripText(tier1_text)])
             ELSE [pdfCall EXCEPT !.tier1_text = tier1_text,
                                  !.ocr_called = TRUE,
                                  !.pc = IF pdfCall.ocr_available THEN "ocr"
                                         ELSE "joined"]
    /\ UNCHANGED <<jobvars, comCall, factoryCall, aiCall>>

\* _extract_text_with_ocr, one page of the loop: app/services skips a page
\* that raises and a page without text, services has no try and appends
\* every text
OcrPage ==
    /\ pdfCall.pc = "ocr"
    /\ pdfCall.page <= pdfCall.pages
    /\ LET k == pdfCall.page
           outcome == pdfCall.ocr[k]
           page_text == PageOcr(k, outcome)
       IN  pdfCall' =
             IF outcome = "fail"
             THEN IF Services(impl) = "app"
                  THEN [pdfCall EXCEPT !.page = k + 1]
                  ELSE DocClose([pdfCall EXCEPT !.pc = "done",
                                                !.raised = TRUE])
             ELSE IF Services(impl) = "app" /\ page_text = <<>>
             THEN [pdfCall EXCEPT !.page = k + 1]
             ELSE [pdfCall EXCEPT !.page = k + 1,
                       !.full_text = Append(pdfCall.full_text, page_text)]
    /\ UNCHANGED <<jobvars, comCall, factoryCall, aiCall>>

\* return "\n\n--- Page Break ---\n\n".join(full_text)
OcrJoin ==
    /\ pdfCall.pc = "ocr"
    /\ pdfCall.page > pdfCall.pages
    /\ pdfCall' = [pdfCall EXCEPT !.pc = "joined", !.ocr_done = TRUE,
                       !.ocr_text = JoinText(PageBreak, pdfCall.full_text)]
    /\ UNCHANGED <<jobvars, comCall, factoryCall, aiCall>>

\* the OCR text stripped, or the stripped Tier-1 text when OCR found none
PdfReturn ==
    /\ pdfCall.pc = "joined"
    /\ pdfCall' = DocClose([pdfCall EXCEPT !.pc = "done",
                       !.ret = IF StripText(pdfCall.ocr_text) # <<>>
                               THEN StripText(pdfCall.ocr_text)
                               ELSE StripText(pdfCall.tier1_text)])
    /\ UNCHANGED <<jobvars, comCall, factoryCall, aiCall>>

\* the documents: the number of pages, the length of the text that direct
\* extraction finds on page 1 (the other pages have none), and what OCR
\* does on each page: it raises, finds nothing, or finds a text
InitPdf ==
    /\ InitJobs
    /\ impl \in CeleryImpls
    /\ Configured
    /\ comCall = NoCom
    /\ pdfCall \in
         { PdfCall(pages, direct, ocr, opens, tier1raise, ocr_available) :
             pages \in 1..MaxPages,
             direct \in {0, 40, ocr_threshold - 1, ocr_threshold,
                         ocr_threshold + 1, 150},
             ocr \in UNION { [1..n -> {"fail", "empty", "text"}] :
                               n \in 1..MaxPages },
             opens \in BOOLEAN, tier1raise \in BOOLEAN,
             ocr_available \in BOOLEAN }
    /\ Len(pdfCall.ocr) = pdfCall.pages
    /\ factoryCall = NoFactory
    /\ aiCall = NoAi

NextPdf ==
    \/ PdfOpen
    \/ PdfTier1
    \/ OcrPage
    \/ OcrJoin
    \/ PdfReturn

SpecPdf == InitPdf /\ [][NextPdf]_vars

\* ------------------------------------------------ the provider factory alone
\* a call of get_ai_provider; sdks are the provider classes whose SDK is
\* installed, constructed the classes whose constructor has been entered
FactoryCall(provider_name, model_name, api_key, sdks) ==
    [pc |-> "select", provider_name |-> provider_name,
     model_name |-> model_name, api_key |-> api_key, sdks |-> sdks,
     class |-> "", constructed |-> {}, returned |-> "", error |-> ""]

\* the choice of the class by name, or ValueError for an unknown name
FactorySelect ==
    /\ factoryCall.pc = "select"
    /\ LET class == ProviderClass(factoryCall.provider_name)
       IN  factoryCall' =
             IF class = ""
             THEN [factoryCall EXCEPT !.pc = "done",
                                      !.error = "Unsupported AI provider"]
             ELSE [factoryCall EXCEPT !.pc = "init", !.class = class]
    /\ UNCHANGED <<jobvars, comCall, pdfCall, aiCall>>

\* LLMProvider.__init__ and _initialize_client of the chosen class
FactoryConstruct ==
    /\ factoryCall.pc = "init"
    /\ LET class == factoryCall.class
           entered == [factoryCall EXCEPT !.pc = "done",
                                          !.constructed = {class}]
       IN  factoryCall' =
             IF factoryCall.api_key = ""
             THEN [entered EXCEPT !.error = "API key must be provided."]
             ELSE IF class \notin factoryCall.sdks
             THEN [entered EXCEPT !.error = "SDK not installed."]
             ELSE [entered EXCEPT !.returned = class]
    /\ UNCHANGED <<jobvars, comCall, pdfCall, aiCall>>

InitFactory ==
    /\ InitJobs
    /\ impl \in CeleryImpls
    /\ Configured
    /\ comCall = NoCom
    /\ pdfCall = NoPdf
    /\ aiCall = NoAi
    /\ factoryCall \in
         { FactoryCall(provider_name, model_name, api_key, sdks) :
             provider_name \in {"gemini", "Gemini", "GEMINI", "openai",
                                "OpenAI", "zhipuai", ""},
             model_name \in {"", "m1"},
             api_key \in {"", "sk"},
             sdks \in SUBSET {"GeminiProvider", "OpenAIProvider"} }

NextFactory ==
    \/ FactorySelect
    \/ FactoryConstruct

SpecFactory == InitFactory /\ [][NextFactory]_vars

\* ================================================================== claims
\* the delivered responses that carry a status (HTTP 200)
Answered == { i \in 1..Len(hist) : hist[i].resp.http = 200 }
Terminal == {"success", "failed"}

\* the position of a status in pending -> in_progress -> {success | failed}
Rank(status) ==
    CASE status = "pending" -> 0
      [] status = "in_progress" -> 1
      [] OTHER -> 2

\* ------------------------------ generate_structured_markdown and its caller
\* the responses a call is followed with
ReplyResponses ==
    AiResponses \cup
    { AiResponse(FALSE, b) : b \in {BodyNullWarnings, BodyExtraField, BodyArray} }

\* a call of generate_structured_markdown(text_content, "General", file_type)
\* on the provider built for provider_name, with the response the service
\* holds for a request; final and files are what the calling executor
\* records and writes
AiCall(pc, provider_name, text_content, file_type, response) ==
    [pc |-> pc, provider_name |-> provider_name,
     text_content |-> text_content, file_type |-> file_type,
     response |-> response, requests |-> 0, error |-> "", result |-> NoDict,
     final |-> NoFinal, files |-> {}]

\* the whole method: the prompt is built, the request sent, the response
\* parsed
AiGenerate ==
    /\ aiCall.pc = "called"
    /\ LET call == GenerateCall(Services(impl), aiCall.provider_name,
                                aiCall.response)
       IN  aiCall' = [aiCall EXCEPT !.pc = "done",
                                    !.requests = call.requests,
                                    !.error = call.error,
                                    !.result = call.result]
    /\ UNCHANGED <<jobvars, comCall, pdfCall, factoryCall>>

InitAi ==
    /\ InitJobs
    /\ impl \in CeleryImpls
    /\ Configured
    /\ comCall = NoCom
    /\ pdfCall = NoPdf
    /\ factoryCall = NoFactory
    /\ aiCall \in
         { AiCall("called", provider_name, text_content, file_type, response) :
             provider_name \in ProviderNames,
             text_content \in {"", "  ", "text"},
             file_type \in {".pdf", ".DOC"}, response \in ReplyResponses }

NextAi == AiGenerate

SpecAi == InitAi /\ [][NextAi]_vars

\* ------------------------------------------- the handling of a response alone
\* the try block of the method from the point where the request has come
\* back: the response is read and parsed
AiRead ==
    /\ aiCall.pc = "answered"
    /\ LET call == SendAndParse(Services(impl), aiCall.provider_name,
                                aiCall.response)
       IN  aiCall' = [aiCall EXCEPT
                        !.pc = IF call.error = "" THEN "returned" ELSE "raised",
                        !.requests = call.requests,
                        !.error = call.error,
                        !.result = call.result]
    /\ UNCHANGED <<jobvars, comCall, pdfCall, factoryCall>>

\* the output path of the job whose executor made the call; its directory
\* is the job's id
ReplyOutput == Path(1, "a", ".md")

\* the executor after generate_structured_markdown: the dict is read and
\* the markdown saved, or the exception of the method is handled
TaskSave ==
    /\ aiCall.pc \in {"returned", "raised"}
    /\ LET reply == Seen(aiCall)
           celery == IF impl = "app_main"
                     THEN IF reply.raise
                          THEN Outcome(Meta("SUCCESS",
                                   RetVal("failed", aiCall.error, FALSE,
                                          NoPath, NoWarnings), ""),
                                   {}, TRUE, NoExchange)
                          ELSE AppAiSave(ReplyOutput, reply, NoExchange)
                     ELSE IF reply.raise
                          THEN Outcome(Meta("FAILURE", NoRetVal, aiCall.error),
                                       {}, TRUE, NoExchange)
                          ELSE RootAiSave(ReplyOutput, reply, NoExchange)
           err == IF reply.raise THEN aiCall.error
                  ELSE EndpointsSaveError(reply)
       IN  aiCall' =
             IF impl = "endpoints"
             THEN [aiCall EXCEPT
                     !.pc = "done",
                     !.final =
                        IF err = ""
                        THEN Final("success",
                                   Result("success", ReplyOutput, "",
                                          IF reply.warnings.present
                                          THEN reply.warnings
                                          ELSE ListWarnings(<<>>), ""))
                        ELSE Final("failed", ErrorResult(err)),
                     !.files = IF err = ""
                               THEN {OutFile(ReplyOutput, reply.md)} ELSE {}]
             ELSE [aiCall EXCEPT
                     !.pc = "done",
                     !.final = FinalOf(impl, ReplyOutput.dir, celery.meta),
                     !.files = celery.files]
    /\ UNCHANGED <<jobvars, comCall, pdfCall, factoryCall>>

InitReply ==
    /\ InitJobs
    /\ impl \in Impls \ {"flask"}
    /\ settings.API_KEY # ""
    /\ settings.MODEL_NAME # ""
    /\ comCall = NoCom
    /\ pdfCall = NoPdf
    /\ factoryCall = NoFactory
    /\ aiCall \in
         { AiCall("answered", provider_name, "text", ".pdf", response) :
             provider_name \in ProviderNames, response \in ReplyResponses }
    /\ impl = "endpoints" => aiCall.provider_name = settings.AI_PROVIDER

NextReply ==
    \/ AiRead
    \/ TaskSave

SpecReply == InitReply /\ [][NextReply]_vars

\* C1: the statuses one poller is given for one job never go back: a later
\* status is never earlier in pending -> in_progress -> {success | failed},
\* and the poller is never given both success and failed.
C1_StatusNeverDecreases ==
    \A i, j \in Answered :
        (/\ i < j
         /\ hist[i].p = hist[j].p
         /\ hist[i].resp.id = hist[j].resp.id
         /\ hist[i].resp.id \in jobs)
        => /\ Rank(hist[i].resp.status) <= Rank(hist[j].resp.status)
           /\ {hist[i].resp.status, hist[j].resp.status} # Terminal

\* C2: a job whose executor took a failure path is never reported success:
\* its terminal report is failed and carries a non-empty error_message.
C2_FailureReportedFailed ==
    \A i \in Answered :
        (hist[i].resp.id \in execFailed /\ hist[i].resp.status \in Terminal)
        => /\ hist[i].resp.status = "failed"
           /\ hist[i].resp.result.error_message # ""

\* the extensions the dispatcher contract accepts for a task type
AcceptedExtensions(task_type) ==
    IF task_type = PPT_TO_PDF THEN {".ppt", ".pptx"}
    ELSE IF Contains(task_type, <<"to", "markdown">>)
    THEN {".doc", ".docx", ".pdf"}
    ELSE {}

\* the submissions whose file extension their task type does not accept
Mismatched ==
    { i \in 1..Len(subs) :
        subs[i].file = NoFile
        \/ Lower(subs[i].file.ext) \notin AcceptedExtensions(subs[i].task_type) }

\* C3: a submission whose extension its task type does not accept is
\* rejected with a client error and no job is created for it.
C3_MismatchRejected ==
    \A i \in Mismatched :
        subs[i].http \in {400, 422} /\ subs[i].job_id = 0

\* the messages of the rejections for a bad task type or file type
ClientInputErrors ==
    {"Missing file or task_type", "Field required", "No file or task type",
     "Unknown task type", "Invalid task type", "File type mismatch"}

\* C4: when a submission is rejected for its task type or its file type, no
\* input file has been written for it.
C4_RejectedBeforePersist ==
    \A i \in 1..Len(subs) :
        (subs[i].http \in {400, 422} /\ subs[i].detail \in ClientInputErrors)
        => ~ \E f \in inputFiles : f.dir = subs[i].req_id

\* C5: every response carries the status and the result of one state of
\* the job: a terminal status comes with the result the job was recorded
\* with, a non-terminal status with no result.
C5_NoTornResponse ==
    \A i \in Answered :
        IF hist[i].resp.status \in Terminal
        THEN /\ finalState[hist[i].resp.id].status = hist[i].resp.status
             /\ finalState[hist[i].resp.id].result = hist[i].resp.result
        ELSE hist[i].resp.result = NullResult

\* C5 witness: the last response reported success to a poller whose query
\* had first read the job as unfinished: the worker stored the result while
\* the query was running
C5_Witness ==
    /\ hist # <<>>
    /\ hist[Len(hist)].resp.status = "success"
    /\ hist[Len(hist)].resp.result.kind = "success"
    /\ poller[hist[Len(hist)].p].pc = "idle"
    /\ poller[hist[Len(hist)].p].status \in {"pending", "PENDING"}
    /\ hist[Len(hist)].resp.id \notin execFailed

\* C6: every query about a job is answered with a status among pending,
\* in_progress, success, failed.
C6_StatusInLiteral ==
    \A i \in 1..Len(hist) :
        hist[i].resp.id \in jobs => hist[i].resp.status \in TaskStatus

\* C7: the result is null exactly for pending and in_progress; with success
\* it names an output file and has a non-null warnings list; with failed it
\* has an error_message.
C7_ResultShape ==
    \A i \in Answered :
        LET r == hist[i].resp
        IN  /\ (r.result = NullResult) <=> (r.status \in {"pending", "in_progress"})
            /\ r.status = "success"
               => /\ r.result.url.stem # ""
                  /\ r.result.warnings.present
                  /\ ~r.result.warnings.null
            /\ r.status = "failed" => r.result.kind = "error"

\* C8: a query about an id that was never issued to a job is answered
\* NotFound (404).
C8_UnknownIdNotFound ==
    \A i \in 1..Len(hist) :
        hist[i].resp.id \notin jobs => hist[i].resp.http = 404

\* C9: after a terminal report for a job, any two queries begun later are
\* answered with the same status and the same result.
C9_TerminalIdempotent ==
    \A i \in Answered : \A j, k \in 1..Len(hist) :
        (/\ hist[i].resp.status \in Terminal
         /\ hist[i].resp.id \in jobs
         /\ i < j /\ j < k
         /\ hist[j].start >= i /\ hist[k].start >= i
         /\ hist[j].resp.id = hist[i].resp.id
         /\ hist[k].resp.id = hist[i].resp.id)
        => /\ hist[j].resp.status = hist[k].resp.status
           /\ hist[j].resp.result = hist[k].resp.result

\* C10: a job whose execution has not started is reported pending, and
\* in_progress is reported only for a job whose execution has started.
C10_PendingUntilStarted ==
    \A i \in Answered :
        hist[i].resp.id \in jobs
        => /\ hist[i].resp.id \notin started => hist[i].resp.status = "pending"
           /\ hist[i].resp.status = "in_progress" => hist[i].resp.id \in started

\* the submissions whose response has been returned to the client
Returned == 1..Len(subs)

\* C11: submit hands a job off before any of it is executed: a job's
\* execution begins and ends, and its output file is written, only after the
\* response of its submission has been returned.
C11_ExecutedAfterHandOff ==
    [][/\ \A id \in started' \ started :
             \E i \in Returned : subs[i].job_id = id
       /\ \A id \in Uuids :
             finalState'[id] # finalState[id]
             => \E i \in Returned : subs[i].job_id = id
       /\ \A f \in outputFiles' \ outputFiles :
             \E i \in Returned : subs[i].req_id = f.path.dir]_vars

\* C12: when a COM function has returned or raised, the document it opened
\* is closed and the application instance it created is not running,
\* whichever of its COM calls raised.
C12_ComReleased ==
    comCall.pc = "done" => ~comCall.running /\ ~comCall.open

\* C13: for a PDF whose direct extraction gave a text, extract returns the
\* trimmed Tier-1 text without calling OCR exactly when the trimmed length
\* is greater than the threshold; otherwise the OCR fallback is called.
C13_DirectIffOverThreshold ==
    (pdfCall.pc = "done" /\ pdfCall.opens /\ ~pdfCall.tier1raise)
    => LET trimmed == StripText(Tier1Text(pdfCall.pages, pdfCall.direct))
       IN  IF LenText(trimmed) > ocr_threshold
           THEN ~pdfCall.ocr_called /\ ~pdfCall.raised /\ pdfCall.ret = trimmed
           ELSE pdfCall.ocr_called

\* C13 witness: a text one character over the threshold was returned
\* without OCR
C13_Witness ==
    /\ pdfCall.pc = "done"
    /\ pdfCall.direct = ocr_threshold + 1
    /\ ~pdfCall.ocr_called
    /\ LenText(pdfCall.ret) = ocr_threshold + 1

\* the OCR texts of pages k.. of a call on which OCR did not raise, in page
\* order; with_empty keeps the pages on which OCR found no text
RECURSIVE RemainingTexts(_, _, _)
RemainingTexts(c, k, with_empty) ==
    IF k > c.pages THEN <<>>
    ELSE (IF c.ocr[k] = "fail" \/ (c.ocr[k] = "empty" /\ ~with_empty)
          THEN <<>> ELSE <<PageOcr(k, c.ocr[k])>>)
         \o RemainingTexts(c, k + 1, with_empty)

\* C14: once the OCR fallback has run, whichever pages failed, it has not
\* raised and its result is the texts of the pages that did not fail, in
\* page order, joined by the page-break marker (a page without text may or
\* may not contribute an empty text).
C14_OcrSkipsFailedPages ==
    (/\ pdfCall.pc \in {"joined", "done"}
     /\ pdfCall.ocr_called
     /\ pdfCall.ocr_available)
    => /\ ~pdfCall.raised
       /\ pdfCall.ocr_text \in
             { JoinText(PageBreak, RemainingTexts(pdfCall, 1, TRUE)),
               JoinText(PageBreak, RemainingTexts(pdfCall, 1, FALSE)) }

\* the responses that break the contract: not JSON, or JSON whose
\* markdown_content is empty or missing
ContractViolations ==
    { r \in AiResponses :
        ~r.error /\ (~JsonLoads(r.text).ok \/ JsonLoads(r.text).md = "") }

WellFormed ==
    { r \in AiResponses :
        /\ ~r.error
        /\ JsonLoads(r.text).ok
        /\ JsonLoads(r.text).md # ""
        /\ JsonLoads(r.text).warnings.present }

NamedBackend(provider_name) ==
    IF provider_name \in {"gemini", "Gemini", "GEMINI"} THEN "GeminiProvider"
    ELSE IF provider_name \in {"openai", "OpenAI"} THEN "OpenAIProvider"
    ELSE ""

\* C17: the factory gives the Google-family backend for gemini and the
\* OpenAI-family backend for openai, in any letter case, whenever that
\* backend can be built; for every other name it fails with the
\* unsupported-provider error and no backend's constructor is entered.
C17_FactoryByName ==
    factoryCall.pc = "done"
    => LET named == NamedBackend(factoryCall.provider_name)
       IN  IF named = ""
           THEN /\ factoryCall.error = "Unsupported AI provider"
                /\ factoryCall.constructed = {}
                /\ factoryCall.returned = ""
           ELSE /\ factoryCall.error # "Unsupported AI provider"
                /\ factoryCall.constructed = {named}
                /\ (factoryCall.api_key # "" /\ named \in factoryCall.sdks)
                   => factoryCall.returned = named

\* C17 witness: the name OpenAI, in mixed case, gave the OpenAI backend
C17_Witness ==
    /\ factoryCall.pc = "done"
    /\ factoryCall.provider_name = "OpenAI"
    /\ factoryCall.returned = "OpenAIProvider"

\* the submissions whose upload was persisted
Persisted == { i \in Returned : subs[i].req_id # 0 }

\* C18: whatever file name the client sent, the input file of a submission
\* lies in the input directory keyed by its own id and its output in the
\* output directory keyed by the same id, and no two submissions share an id.
C18_FilesInOwnDirectory ==
    /\ \A i \in Persisted : \E f \in inputFiles : f.dir = subs[i].req_id
    /\ \A f \in inputFiles : f.dir \in 1..uuids
    /\ \A f \in outputFiles :
          \E i \in Persisted : subs[i].req_id = f.path.dir
    /\ \A i, j \in Persisted : i # j => subs[i].req_id # subs[j].req_id

\* C19: the id submit returns is the id that keys the job's directories,
\* and the output file is named by the input file's stem with .pdf for
\* ppt_to_pdf and .md for the markdown tasks.
C19_ReturnedIdKeysDirectories ==
    \A i \in Returned :
        subs[i].job_id # 0
        => /\ subs[i].job_id = subs[i].req_id
           /\ \A f \in outputFiles :
                 f.path.dir = subs[i].req_id
                 => /\ f.path.stem = Stem(subs[i].file)
                    /\ f.path.ext = IF subs[i].task_type = PPT_TO_PDF
                                    THEN ".pdf" ELSE ".md"

\* the job store holds a terminal record for id
StoredTerminal(id) ==
    \/ backend[id].state \in {"SUCCESS", "FAILURE"}
    \/ tasks_db[id].status \in Terminal

\* id is being executed: a worker, or the handler of conversion_tasks.py,
\* is inside its executor
Executing(id) ==
    \/ \E msg \in running : msg.id = id
    \/ \E job \in syncJobs : job.id = id

\* C20: every job that is being executed is eventually recorded with a
\* terminal state, whichever step of its executor raises.
C20_StartedJobsEnd ==
    \A id \in Uuids : Executing(id) ~> StoredTerminal(id)

\* C20 witness: a job whose executor took a failure path has a terminal
\* record
C20_Witness ==
    \E id \in execFailed : StoredTerminal(id)

\* C21: a markdown job hands the AI backend a text only when the text has a
\* character that is not whitespace; a job whose extracted text is empty
\* after trimming fails without asking the backend.
C21_NoBlankPrompt ==
    \A id \in Uuids :
        prompts[id] # "" => Strip(prompts[id]) # ""

\* C22: a call of generate_structured_markdown sends exactly one request to
\* the service and hands back what came of it: the parsed response when the
\* service answered with JSON, and an AI-service error otherwise.
C22_OneRequest ==
    aiCall.pc = "done"
    => /\ aiCall.requests = 1
       /\ IF ~aiCall.response.error /\ JsonLoads(aiCall.response.text).ok
          THEN /\ aiCall.error = ""
               /\ aiCall.result = JsonLoads(aiCall.response.text)
          ELSE aiCall.error = "AIServiceError"

\* the responses that are JSON but not an object with exactly the fields
\* markdown_content and warnings, the latter a list
NotTheContract ==
    { r \in ReplyResponses :
        /\ ~r.error
        /\ JsonLoads(r.text).ok
        /\ \/ ~JsonLoads(r.text).object
           \/ JsonLoads(r.text).keys # {"markdown_content", "warnings"}
           \/ JsonLoads(r.text).warnings.null }

OcrYieldsNothing(c) ==
    \/ ~c.ocr_available
    \/ \A k \in 1..c.pages : c.ocr[k] \in {"fail", "empty"}

\* C24: for a PDF that was opened and whose OCR fallback yields no text
\* (OCR unavailable, or every page failing or empty), extract does not
\* raise and returns the trimmed Tier-1 text, which may be empty.
C24_FallsBackToTier1 ==
    (/\ pdfCall.pc = "done"
     /\ pdfCall.opens
     /\ pdfCall.ocr_called
     /\ OcrYieldsNothing(pdfCall))
    => /\ ~pdfCall.raised
       /\ pdfCall.ret =
             StripText(IF pdfCall.tier1raise THEN <<>>
                       ELSE Tier1Text(pdfCall.pages, pdfCall.direct))

\* the COM calls up to and including SaveAs
BeforeCleanup == {"create", "visible", "open", "work"}

\* what C25 asks of a finished conversion whose extension belongs to a
\* document family: only that family's engine was asked for, nothing was
\* saved but the destination path with that family's format code, and
\* that was saved when no COM call up to SaveAs raised
ConvertedWith(c, engine, code) ==
    /\ c.created \subseteq {engine}
    /\ c.saved \subseteq {[path |-> c.output, format |-> code]}
    /\ c.faults \cap BeforeCleanup = {}
       => c.created = {engine} /\ c.saved # {}

\* C25: convert_to_pdf_com uses the presentation engine with format code 32
\* for .ppt and .pptx and the word-processor engine with format code 17
\* for .doc and .docx, saving to the destination path; for every other
\* extension it fails and no application instance is asked for.
C25_EngineAndFormat ==
    (comCall.pc = "done" /\ comCall.name = "convert_to_pdf_com")
    => IF comCall.ext \in {".ppt", ".pptx", ".PPTX"}
       THEN ConvertedWith(comCall, "Powerpoint.Application", 32)
       ELSE IF comCall.ext \in {".doc", ".docx"}
       THEN ConvertedWith(comCall, "Word.Application", 17)
       ELSE /\ comCall.raised
            /\ comCall.created = {}
            /\ comCall.saved = {}

\* C25 witness: a .PPTX was saved by the presentation engine with code 32
C25_Witness ==
    /\ comCall.pc = "done"
    /\ comCall.name = "convert_to_pdf_com"
    /\ comCall.ext = ".PPTX"
    /\ comCall.created = {"Powerpoint.Application"}
    /\ comCall.saved = {[path |-> comCall.output, format |-> 32]}
    /\ ~comCall.raised

\* C29: in services/file_processor.py every CoInitialize is matched by
\* exactly one CoUninitialize on every exit path of convert_to_pdf_com and
\* of the .doc text read, also when doc.Close() or app.Quit() raises.
C29_ComUninitialized ==
    (comCall.pc = "done" /\ Initializes)
    => /\ comCall.initialized = 1
       /\ comCall.uninitialized = comCall.initialized

\* C30: after a successful open the PDF document is closed exactly once
\* on every exit path: the direct-text return, the OCR return, the Tier-1
\* fallback return, and an exception raised while the document is read.
C30_ClosedOnce ==
    pdfCall.pc = "done"
    => pdfCall.closed = IF pdfCall.opens THEN 1 ELSE 0

\* C30 witness: a page raised during OCR and the call left with an exception
C30_Witness ==
    /\ pdfCall.pc = "done"
    /\ pdfCall.opens
    /\ pdfCall.raised
    /\ pdfCall.ocr_called
    /\ pdfCall.closed = 1

\* C26: the provider name, API key and model name the dispatcher chose for
\* an AI job are the ones the executor passes to the provider factory, each
\* in its own parameter.
C26_ArgumentsInPlace ==
    \A id \in Uuids :
        (impl \in CeleryImpls /\ factoryArgs[id].called)
        => factoryArgs[id] = Args(settings.AI_PROVIDER, settings.MODEL_NAME,
                                  settings.API_KEY)

\* the output_file_url of job id names a file written under the directory
\* of the submission that created the job
UrlResolves(id) ==
    LET url == finalState[id].result.url
    IN  /\ \E k \in 1..Len(subs) :
              subs[k].job_id = id /\ subs[k].req_id = url.dir
        /\ \E f \in outputFiles : f.path = url

\* C27: for every job reported success, the output_file_url of its result
\* names the directory id and the file name under which the executor wrote
\* the output artifact.
C27_UrlNamesArtifact ==
    \A id \in Uuids : finalState[id].status = "success" => UrlResolves(id)

\* C28: in the Flask upload handler no submission whose file was persisted
\* (it passed the task-type/extension validation) is rejected as an invalid
\* task type; each is handled by one of the conversion branches.
C28_ValidatedIsHandled ==
    \A k \in 1..Len(subs) :
        (impl = "flask" /\ \E f \in inputFiles : f.dir = subs[k].req_id)
        => subs[k].detail # "Invalid task type"

====
